---- MODULE Spec2Model ----
(***************************************************************************)
(* SJBOT: the hourly posting scheduler (scheduler.py), the publishing      *)
(* pipeline and admin handlers (bot_core.py), the ranker                   *)
(* (aliexpress_client.py) and the post ledger / process state (db.py).     *)
(*                                                                         *)
(* Everything runs on one asyncio event loop, so code between two awaits   *)
(* is atomic.  post_offer suspends only in `await send_photo` and          *)
(* `await send_message`; a task whose pc is "call" is in the synchronous   *)
(* part of its loop and holds the event loop until it suspends or ends.    *)
(*                                                                         *)
(* Time is counted in ticks: SlotLen ticks to a slot, HourLen slots to the  *)
(* hour.  The scheduler plans at slot starts (the second offsets of        *)
(* range(0, 3600)); every datetime.now() read of post_offer takes one      *)
(* tick, so two calls never read the same instant (the wall clock has      *)
(* microsecond resolution).                                                *)
(***************************************************************************)
EXTENDS Integers, Sequences, FiniteSets, TLC

VARIABLES
    clock,                  \* wall clock, in ticks
    posts,                  \* table posts: set of PostRecords
    state,                  \* table state: key -> value, NONE when the row is absent
    consecutive_failures,   \* PostingScheduler.consecutive_failures
    jobs,                   \* pending DateTrigger jobs of _post_one (run dates)
    start_pending,          \* the one-off _plan_next_hour job added by start()
    next_cron,              \* next fire time of the cron job (minute=0)
    tasks,                  \* in-flight _post_one / postnow_handler coroutines
    send_enabled,           \* BotCore.send_enabled
    streak,                 \* history: scheduled attempts without a post since the last one with a post
    runs,                   \* fetches left that return an offer the filter accepts
    out,                    \* what the last step did (calls made, values returned)
    ranking,                \* a call of best_scored on its own: the batch, the limit, the result
    planned                 \* history: the clock hours this process planned, and by which job

vars == <<clock, posts, state, consecutive_failures, jobs, start_pending,
          next_cron, tasks, send_enabled, streak, runs, out, ranking, planned>>

----------------------------------------------------------------------------
(* Bounds of the model *)

HourLen == 2        \* slots per hour (stands for the 3600 seconds of range(0, 3600))
SlotLen == 2        \* ticks per slot
PipelineSlots == 2  \* slots of run time explored by SpecPipeline
BreakerSlots == 6   \* slots of run time explored by SpecBreaker
PipelineRuns == 2   \* fetches that return an acceptable offer, in SpecPipeline
BreakerRuns == 1    \* the same, in SpecBreaker
AdminSlots == 2     \* slots of run time explored by SpecAdmin
AdminRuns == 1      \* fetches that return an acceptable offer, in SpecAdmin
MaxRank == 3        \* offers in a batch ranked on its own, in SpecRanker
MaxLimit == 2       \* the limit of such a call
MaxTimes == 3       \* distinct posted_at values of the ledger calls made on their own, in SpecLedger
MaxWait == 1        \* slots a delivery call may stay suspended (the transport's timeout)
MaxTasks == 2       \* coroutines in flight at once
MaxBatch == 2       \* offers returned by one catalog fetch
MaxRecent == 3      \* largest LIMIT of get_recent_posts
RestartSlots == 6   \* slots SpecRestart runs for

(* Program constants *)

RepostHours == 48               \* timedelta(hours=48)
FailureThreshold == 5           \* if self.consecutive_failures >= 5
WindowStart == 8                \* 8 <= now.hour
WindowEnd == 22                 \* now.hour < 22
MinPerHourDefault == 20         \* MIN_PER_HOUR
MaxPerHourDefault == 25         \* MAX_PER_HOUR
BestLimit == 20                 \* best_scored(limit=20)

NONE == "none"

StartHour == 2 * 24 + 19        \* the process starts on day 2 at 19:00 or 19:30
HourTicks == HourLen * SlotLen

----------------------------------------------------------------------------
(* Time: datetime.isoformat() and the string comparison SQLite makes *)

\* isoformat(): the fields day, hour, slot of the hour, tick of the slot
Iso(t) == << t \div (24 * HourTicks), (t \div HourTicks) % 24,
             (t % HourTicks) \div SlotLen, t % SlotLen >>

FromIso(s) == (s[1] * 24 + s[2]) * HourTicks + s[3] * SlotLen + s[4]

\* posted_at >= ? on the stored strings: field by field, left to right
RECURSIVE IsoGeq(_, _)
IsoGeq(a, b) ==
    IF a = <<>> THEN TRUE
    ELSE IF Head(a) # Head(b) THEN Head(a) > Head(b)
    ELSE IsoGeq(Tail(a), Tail(b))

HourOf(t) == (t \div HourTicks) % 24

\* timedelta(hours=h)
Hours(h) == h * HourTicks

----------------------------------------------------------------------------
(* Offers and the ranker *)

\* a string is the sequence of its characters
Chars_RTX ==
    <<"R", "T", "X", " ", "4", "0", "6", "0", " ", "P", "l", "a", "c", "a", " ", "d", "e",
      " ", "V", "í", "d", "e", "o">>
Chars_placas ==
    <<"p", "l", "a", "c", "a", "s", " ", "d", "e", " ", "v", "i", "d", "e", "o">>
Chars_Funko ==
    <<"F", "u", "n", "k", "o", " ", "P", "o", "p", " ", "C", "o", "l", "e", "c", "i", "o",
      "n", "á", "v", "e", "l">>
Chars_funko ==
    <<"f", "u", "n", "k", "o">>
Chars_Camiseta ==
    <<"C", "a", "m", "i", "s", "e", "t", "a", " ", "U", "n", "i", "s", "s", "e", "x">>
Chars_roupas ==
    <<"r", "o", "u", "p", "a", "s">>

Offer1 == [product_id |-> "p1",
           title |-> Chars_RTX,              \* "RTX 4060 Placa de Vídeo"
           category |-> Chars_placas,        \* "placas de video"
           price |-> 100, discount_pct |-> 30, coupon |-> "R$20 OFF",
           free_shipping |-> TRUE, sales_count |-> 500, rating10 |-> 45,
           image_url |-> "https://ae01.alicdn.com/p1.jpg"]

Offer2 == [product_id |-> "p2",
           title |-> Chars_Funko,            \* "Funko Pop Colecionável"
           category |-> Chars_funko,         \* "funko"
           price |-> 50, discount_pct |-> 10, coupon |-> NONE,
           free_shipping |-> FALSE, sales_count |-> 5, rating10 |-> 35,
           image_url |-> ""]

Offer3 == [product_id |-> "p3",
           title |-> Chars_Camiseta,         \* "Camiseta Unissex"
           category |-> Chars_roupas,        \* "roupas"
           price |-> 30, discount_pct |-> 50, coupon |-> "R$50 OFF",
           free_shipping |-> TRUE, sales_count |-> 400, rating10 |-> 49,
           image_url |-> "https://ae01.alicdn.com/p3.jpg"]

OfferPool == {Offer1, Offer2, Offer3}

\* offers for the ranker on its own: scores 62, 40, 40 and 15, and one the filter rejects
Rank62 == [product_id |-> "r1", title |-> Chars_Funko, category |-> Chars_funko,
           price |-> 10, discount_pct |-> 14, coupon |-> NONE,
           free_shipping |-> TRUE, sales_count |-> 5000, rating10 |-> 40, image_url |-> ""]

Rank40a == [product_id |-> "r2", title |-> Chars_Funko, category |-> Chars_funko,
            price |-> 20, discount_pct |-> 8, coupon |-> "R$20 OFF",
            free_shipping |-> FALSE, sales_count |-> 0, rating10 |-> 40, image_url |-> ""]

Rank40b == [product_id |-> "r3", title |-> Chars_Funko, category |-> Chars_funko,
            price |-> 30, discount_pct |-> 13, coupon |-> NONE,
            free_shipping |-> TRUE, sales_count |-> 0, rating10 |-> 40, image_url |-> ""]

Rank15 == [product_id |-> "r4", title |-> Chars_Funko, category |-> Chars_funko,
           price |-> 40, discount_pct |-> 5, coupon |-> NONE,
           free_shipping |-> FALSE, sales_count |-> 50, rating10 |-> 40, image_url |-> ""]

RankPool == {Rank62, Rank40a, Rank40b, Rank15, Offer3}

ACCEPTED_CATEGORIES ==
    { <<"e", "l", "e", "c", "t", "r", "o", "n", "i", "c", "s">>,
      <<"p", "c", " ", "g", "a", "m", "e", "r">>,
      <<"a", "c", "e", "s", "s", "ó", "r", "i", "o", "s", " ", "g", "a", "m", "e", "r">>,
      <<"a", "c", "e", "s", "s", "o", "r", "i", "o", "s", " ", "g", "a", "m", "e", "r">>,
      <<"g", "a", "b", "i", "n", "e", "t", "e", "s">>,
      <<"p", "r", "o", "c", "e", "s", "s", "a", "d", "o", "r", "e", "s">>,
      <<"p", "l", "a", "c", "a", "s", " ", "d", "e", " ", "v", "í", "d", "e", "o">>,
      <<"p", "l", "a", "c", "a", "s", " ", "d", "e", " ", "v", "i", "d", "e", "o">>,
      <<"c", "o", "m", "p", "o", "n", "e", "n", "t", "e", "s", " ", "d", "e", " ", "p", "c">>,
      <<"q", "u", "a", "r", "t", "o">>,
      <<"d", "e", "c", "o", "r", "a", "ç", "ã", "o">>,
      <<"d", "e", "c", "o", "r", "a", "c", "a", "o">>,
      <<"f", "u", "n", "k", "o">> }

\* `cat in name`: cat occurs in name as a run of consecutive characters
Contains(name, cat) ==
    \E i \in 1..(Len(name) - Len(cat) + 1) :
        \A j \in 1..Len(cat) : name[i + j - 1] = cat[j]

\* str.lower(), character by character
UpperCase ==
    <<"A", "B", "C", "D", "E", "F", "G", "H", "I", "J", "K", "L", "M", "N", "O", "P", "Q",
      "R", "S", "T", "U", "V", "W", "X", "Y", "Z", "Á", "É", "Í", "Ó", "Ú", "Â", "Ê", "Ô",
      "Ã", "Õ", "Ç">>
LowerCase ==
    <<"a", "b", "c", "d", "e", "f", "g", "h", "i", "j", "k", "l", "m", "n", "o", "p", "q",
      "r", "s", "t", "u", "v", "w", "x", "y", "z", "á", "é", "í", "ó", "ú", "â", "ê", "ô",
      "ã", "õ", "ç">>

LowerChar(c) ==
    IF \E i \in DOMAIN UpperCase : UpperCase[i] = c
    THEN LowerCase[CHOOSE i \in DOMAIN UpperCase : UpperCase[i] = c]
    ELSE c

Lower(name) == [i \in 1..Len(name) |-> LowerChar(name[i])]

_passes_category(offer) ==
    LET name == Lower(offer.title \o <<" ">> \o offer.category)
    IN  \E cat \in ACCEPTED_CATEGORIES : Contains(name, cat)

Min(a, b) == IF a < b THEN a ELSE b

\* the score times 50, so that sales_count / 50.0 and the rating stay integers
_score(offer) ==
    100 * offer.discount_pct
    + (IF offer.coupon # NONE THEN 1000 ELSE 0)
    + (IF offer.free_shipping THEN 500 ELSE 0)
    + Min(offer.sales_count, 1000)
    + 5 * offer.rating10

\* faulty variant: nothing is dropped
FilterCategory_all(s) == s

RECURSIVE FilterCategory(_)
FilterCategory(s) ==
    IF s = <<>> THEN <<>>
    ELSE IF _passes_category(Head(s)) THEN <<Head(s)>> \o FilterCategory(Tail(s))
         ELSE FilterCategory(Tail(s))

\* faulty variant: o goes in front of the elements of its own score
RECURSIVE InsertDesc_unstable(_, _)
InsertDesc_unstable(sorted, o) ==
    IF sorted = <<>> THEN <<o>>
    ELSE IF _score(Head(sorted)) > _score(o)
         THEN <<Head(sorted)>> \o InsertDesc_unstable(Tail(sorted), o)
         ELSE <<o>> \o sorted

\* insert o behind every element whose score is >= its own: a stable descending order
RECURSIVE InsertDesc(_, _)
InsertDesc(sorted, o) ==
    IF sorted = <<>> THEN <<o>>
    ELSE IF _score(Head(sorted)) >= _score(o)
         THEN <<Head(sorted)>> \o InsertDesc(Tail(sorted), o)
         ELSE <<o>> \o sorted

RECURSIVE SortDesc(_)
SortDesc(s) ==
    IF s = <<>> THEN <<>>
    ELSE InsertDesc(SortDesc(SubSeq(s, 1, Len(s) - 1)), s[Len(s)])

Take(s, n) == SubSeq(s, 1, Min(n, Len(s)))

best_scored(fetched, limit) ==
    Take(SortDesc(FilterCategory(fetched)), limit)

_available(offer) == TRUE

\* what fetch_top_offers can return: a batch that is never empty (the mock
\* offers stand in for an empty or failed query), with distinct product ids
Fetches ==
    { s \in UNION { [1..n -> OfferPool] : n \in 1..MaxBatch } :
        \A i, j \in 1..Len(s) : i # j => s[i].product_id # s[j].product_id }

\* what best_scored(limit=20) can return
BestBatches == { best_scored(fetched, BestLimit) : fetched \in Fetches }

----------------------------------------------------------------------------
(* The ledger and the process state (db.py) *)

\* a row of posts: posted_at.isoformat(), coupon or None
PostRecord(product_id, posted_at, price, coupon) ==
    [product_id |-> product_id, posted_at |-> Iso(posted_at),
     price |-> price, coupon |-> IF coupon = "" THEN NONE ELSE coupon]

\* faulty variant: the insert is never committed
record_post_lost(ledger, product_id, posted_at, price, coupon) == ledger

\* faulty variant: INSERT OR REPLACE, the row of the same key is overwritten
record_post_replace(ledger, product_id, posted_at, price, coupon) ==
    { r \in ledger : ~(r.product_id = product_id /\ r.posted_at = Iso(posted_at)) }
        \cup {PostRecord(product_id, posted_at, price, coupon)}

\* INSERT OR IGNORE under UNIQUE(product_id, posted_at)
record_post(ledger, product_id, posted_at, price, coupon) ==
    IF \E r \in ledger : r.product_id = product_id /\ r.posted_at = Iso(posted_at)
    THEN ledger
    ELSE ledger \cup {PostRecord(product_id, posted_at, price, coupon)}

\* faulty variant: a strict comparison, posted_at > ?
posted_within_strict(ledger, product_id, since) ==
    \E r \in ledger : /\ r.product_id = product_id
                       /\ IsoGeq(r.posted_at, Iso(since))
                       /\ r.posted_at # Iso(since)

posted_within(ledger, product_id, since) ==
    \E r \in ledger : r.product_id = product_id /\ IsoGeq(r.posted_at, Iso(since))

\* SELECT product_id, posted_at, price FROM posts ORDER BY posted_at DESC LIMIT ?
\* the set of lists the query can return: rows of equal posted_at come in either order
RECURSIVE get_recent_posts(_, _)
get_recent_posts(ledger, limit) ==
    IF limit = 0 \/ ledger = {} THEN { <<>> }
    ELSE UNION { { << <<r.product_id, r.posted_at, r.price>> >> \o rest :
                       rest \in get_recent_posts(ledger \ {r}, limit - 1) } :
                 r \in { x \in ledger :
                            \A y \in ledger : IsoGeq(x.posted_at, y.posted_at) } }

\* faulty variant: the stored row is never read back
get_state_default(key, default) == default

get_state(key, default) == IF state[key] = NONE THEN default ELSE state[key]

set_state(st, key, value) == [st EXCEPT ![key] = value]

StateKeys == {"paused", "min_per_hour", "max_per_hour"}

MaxInt == 30
Str(n) == ToString(n)
ParseInt(s) == CHOOSE n \in 0..MaxInt : ToString(n) = s

----------------------------------------------------------------------------
(* Tasks *)

TaskIds == 1..MaxTasks

Idle == [kind |-> "idle", pc |-> "idle", todo |-> <<>>, now |-> 0]

Running == \E i \in TaskIds : tasks[i].pc = "call"

FreeSlot(i) == tasks[i].kind = "idle" /\ \A j \in 1..(i - 1) : tasks[j].kind # "idle"

\* what a step shows: the operation, the caller, the offer, the calls made (link
\* generation, send_photo, send_message, record_post), the result of the delivery
\* call that came back, the value post_offer returned, how the attempt ended, the
\* failure count it started from, whether notify_admins was called and, for a
\* ledger call made on its own, the number of rows the table had before it
Quiet == [op |-> NONE, who |-> NONE, pid |-> NONE, ret |-> NONE,
          link |-> FALSE, photo |-> FALSE, text |-> FALSE, rec |-> FALSE,
          sent |-> NONE, fin |-> NONE, prev |-> 0, notify |-> FALSE, rows |-> 0]

\* no call of best_scored on its own is under way
NoRanking == [fetched |-> <<>>, limit |-> 0, done |-> FALSE, offers |-> <<>>]

----------------------------------------------------------------------------
(* Initial state: a fresh process over a database that may hold the record *)
(* of an earlier run                                                       *)

StartClocks == {StartHour * HourTicks, StartHour * HourTicks + SlotLen}

\* CronTrigger(minute=0): the first hour boundary at or after t
CronAtOrAfter(t) == ((t + HourTicks - 1) \div HourTicks) * HourTicks

\* the ledger left by an earlier run: Offer1 posted `age` ago
Earlier(age) == {PostRecord(Offer1.product_id, clock - age, Offer1.price, Offer1.coupon)}

\* PostingScheduler.__init__, start() and BotCore.__init__ over an existing database
Started ==
    /\ state = [k \in StateKeys |-> NONE]
    /\ consecutive_failures = 0
    /\ jobs = {}
    /\ start_pending = TRUE
    /\ next_cron = CronAtOrAfter(clock)
    /\ tasks = [i \in TaskIds |-> Idle]
    /\ streak = 0
    /\ planned = {}
    /\ out = Quiet

InitPipeline ==
    /\ clock = StartHour * HourTicks + SlotLen
    /\ Started
    /\ ranking = NoRanking
    /\ posts \in { Earlier(Hours(47)), Earlier(Hours(48)), Earlier(Hours(49)) }
    /\ send_enabled \in BOOLEAN
    /\ runs = PipelineRuns

InitBreaker ==
    /\ clock \in StartClocks
    /\ Started
    /\ ranking = NoRanking
    /\ posts = Earlier(Hours(47))
    /\ send_enabled = TRUE
    /\ runs = BreakerRuns

\* a start half an hour before the window opens, or half an hour before it closes
AdminStarts == { (2 * 24 + WindowStart - 1) * HourTicks + SlotLen,
                 (2 * 24 + WindowEnd - 1) * HourTicks + SlotLen }

InitAdmin ==
    /\ clock \in AdminStarts
    /\ Started
    /\ ranking = NoRanking
    /\ posts = Earlier(Hours(47))
    /\ send_enabled = TRUE
    /\ runs = AdminRuns

----------------------------------------------------------------------------
(* PostingScheduler._plan_next_hour *)

\* faulty variant: the closing hour is taken into the window
_in_window_late(now) == WindowStart <= HourOf(now) /\ HourOf(now) <= WindowEnd

_in_window(now) == WindowStart <= HourOf(now) /\ HourOf(now) < WindowEnd

_get_hourly_bounds ==
    LET mn == ParseInt(get_state("min_per_hour", Str(MinPerHourDefault)))
        mx == ParseInt(get_state("max_per_hour", Str(MaxPerHourDefault)))
    IN  IF mx < mn THEN <<mn, mn>> ELSE <<mn, mx>>

\* faulty variant: offsets before now are kept
_random_times_unfiltered(now, offsets) ==
    LET start == (now \div HourTicks) * HourTicks
    IN  { start + s * SlotLen : s \in offsets }

\* the run dates kept of the sampled slot offsets
_random_times_within_hour(now, offsets) ==
    LET start == (now \div HourTicks) * HourTicks
        end == start + Hours(1)
    IN  { start + s * SlotLen : s \in { x \in offsets :
              now <= start + x * SlotLen /\ start + x * SlotLen < end } }

\* random.sample(range(0, 3600), k=min(n, 3600))
Samples(n) == { S \in SUBSET (0..(HourLen - 1)) : Cardinality(S) = Min(n, HourLen) }

_plan_next_hour(by) ==
    LET now == clock
        b == _get_hourly_bounds
    IN  IF get_state("paused", "0") = "1" \/ ~_in_window(now)
        THEN /\ jobs' = jobs
             /\ planned' = planned
             /\ out' = Quiet
        ELSE \E n \in b[1]..b[2] : \E S \in Samples(n) :
             /\ jobs' = jobs \cup { [at |-> w, by |-> by] :
                                      w \in _random_times_within_hour(now, S) }
             /\ planned' = planned \cup { [hour |-> now \div HourTicks, by |-> by] }
             /\ out' = Quiet

PlanAtStart ==
    /\ ~Running
    /\ start_pending
    /\ start_pending' = FALSE
    /\ _plan_next_hour("start")
    /\ UNCHANGED <<ranking, clock, posts, state, consecutive_failures, next_cron, tasks,
                   send_enabled, streak, runs>>

PlanAtHour ==
    /\ ~Running
    /\ next_cron <= clock
    /\ next_cron' = CronAtOrAfter(clock + 1)
    /\ _plan_next_hour("cron")
    /\ UNCHANGED <<ranking, clock, posts, state, consecutive_failures, start_pending, tasks,
                   send_enabled, streak, runs>>

----------------------------------------------------------------------------
(* The circuit breaker at the end of _post_one *)

\* faulty variant: a post does not reset the count
NextFailures_keep(failures, posted) == IF posted THEN failures ELSE failures + 1

NextFailures(failures, posted) == IF posted THEN 0 ELSE failures + 1

\* faulty variant: every attempt without a post trips the breaker
Trips_always(failures, posted) == ~posted

\* faulty variant: the threshold is tested with >
Trips_late(failures, posted) == ~posted /\ failures > FailureThreshold

Trips(failures, posted) == ~posted /\ failures >= FailureThreshold

\* faulty variant: an attempt that posts also lifts the pause
EndAttempt_resuming(kind, posted, o) ==
    IF kind = "sched"
    THEN LET f == NextFailures(consecutive_failures, posted)
         IN  /\ consecutive_failures' = f
             /\ state' = IF Trips(f, posted) THEN set_state(state, "paused", "1")
                         ELSE IF posted THEN set_state(state, "paused", "0") ELSE state
             /\ streak' = IF posted THEN 0 ELSE streak + 1
             /\ out' = [o EXCEPT !.who = kind,
                                 !.fin = IF posted THEN "posted" ELSE "failed",
                                 !.prev = consecutive_failures,
                                 !.notify = Trips(f, posted)]
    ELSE /\ out' = [o EXCEPT !.who = kind,
                             !.fin = IF posted THEN "posted" ELSE "failed"]
         /\ UNCHANGED <<consecutive_failures, state, streak>>

\* faulty variant: the manual publish is counted like a scheduled attempt
EndAttempt_counting(kind, posted, o) ==
    LET f == NextFailures(consecutive_failures, posted)
    IN  /\ consecutive_failures' = f
        /\ state' = IF Trips(f, posted) THEN set_state(state, "paused", "1") ELSE state
        /\ streak' = IF kind # "sched" THEN streak ELSE IF posted THEN 0 ELSE streak + 1
        /\ out' = [o EXCEPT !.who = kind,
                            !.fin = IF posted THEN "posted" ELSE "failed",
                            !.prev = consecutive_failures,
                            !.notify = Trips(f, posted)]

\* the end of one attempt: the scheduler counts the result, the handler only answers
EndAttempt(kind, posted, o) ==
    IF kind = "sched"
    THEN LET f == NextFailures(consecutive_failures, posted)
         IN  /\ consecutive_failures' = f
             /\ state' = IF Trips(f, posted) THEN set_state(state, "paused", "1") ELSE state
             /\ streak' = IF posted THEN 0 ELSE streak + 1
             /\ out' = [o EXCEPT !.who = kind,
                                 !.fin = IF posted THEN "posted" ELSE "failed",
                                 !.prev = consecutive_failures,
                                 !.notify = Trips(f, posted)]
    ELSE /\ out' = [o EXCEPT !.who = kind,
                             !.fin = IF posted THEN "posted" ELSE "failed"]
         /\ UNCHANGED <<consecutive_failures, state, streak>>

RECURSIVE FilterAvailable(_)
FilterAvailable(s) ==
    IF s = <<>> THEN <<>>
    ELSE IF _available(Head(s)) THEN <<Head(s)>> \o FilterAvailable(Tail(s))
         ELSE FilterAvailable(Tail(s))

\* _post_one fires: paused -> no-op; else fetch and start the loop
_post_one(j) ==
    /\ ~Running
    /\ j \in jobs
    /\ j.at <= clock
    /\ jobs' = jobs \ {j}
    /\ IF get_state("paused", "0") = "1"
       THEN /\ out' = [Quiet EXCEPT !.op = "post_one", !.who = "sched", !.fin = "noop"]
            /\ UNCHANGED <<tasks, consecutive_failures, state, streak, runs>>
       ELSE \E best \in BestBatches :
            LET offers == FilterAvailable(best)
            IN  IF offers = <<>>
                THEN /\ EndAttempt("sched", FALSE, [Quiet EXCEPT !.op = "post_one"])
                     /\ UNCHANGED <<tasks, runs>>
                ELSE \E i \in TaskIds :
                     /\ FreeSlot(i)
                     /\ runs > 0
                     /\ runs' = runs - 1
                     /\ tasks' = [tasks EXCEPT ![i] =
                                    [kind |-> "sched", pc |-> "call", todo |-> offers, now |-> 0]]
                     /\ out' = [Quiet EXCEPT !.op = "post_one", !.who = "sched"]
                     /\ UNCHANGED <<consecutive_failures, state, streak>>
    /\ UNCHANGED <<ranking, planned, clock, posts, start_pending, next_cron, send_enabled>>

----------------------------------------------------------------------------
(* BotCore.post_offer, one call of it by the loop of task i *)

\* faulty variant: the last failure leaves _post_one without being counted
AfterFalse_uncounted(i, o) ==
    LET t == tasks[i]
        rest == Tail(t.todo)
    IN  /\ tasks' = [tasks EXCEPT ![i] =
                       IF rest = <<>> THEN Idle
                       ELSE [t EXCEPT !.pc = "call", !.todo = rest, !.now = 0]]
        /\ out' = [o EXCEPT !.who = t.kind, !.fin = IF rest = <<>> THEN "failed" ELSE NONE]
        /\ UNCHANGED <<consecutive_failures, state, streak>>

\* the loop after a call that returned False: next offer, or the attempt ends
AfterFalse(i, o) ==
    LET t == tasks[i]
        rest == Tail(t.todo)
    IN  IF rest = <<>>
        THEN /\ tasks' = [tasks EXCEPT ![i] = Idle]
             /\ EndAttempt(t.kind, FALSE, o)
        ELSE /\ tasks' = [tasks EXCEPT ![i] = [t EXCEPT !.pc = "call", !.todo = rest, !.now = 0]]
             /\ out' = [o EXCEPT !.who = t.kind]
             /\ UNCHANGED <<consecutive_failures, state, streak>>

\* faulty variant: the loop goes on to the next offer after a post
AfterTrue_continue(i, o) ==
    LET t == tasks[i]
        offer == Head(t.todo)
        rest == Tail(t.todo)
        now == IF t.pc = "call" THEN clock ELSE t.now
    IN  /\ posts' = record_post(posts, offer.product_id, now, offer.price, offer.coupon)
        /\ IF rest = <<>>
           THEN /\ tasks' = [tasks EXCEPT ![i] = Idle]
                /\ EndAttempt(t.kind, TRUE, [o EXCEPT !.rec = TRUE])
           ELSE /\ tasks' = [tasks EXCEPT ![i] = [t EXCEPT !.pc = "call", !.todo = rest, !.now = 0]]
                /\ out' = [o EXCEPT !.who = t.kind, !.rec = TRUE]
                /\ UNCHANGED <<consecutive_failures, state, streak>>

\* record_post and return True: the loop stops
AfterTrue(i, o) ==
    LET t == tasks[i]
        offer == Head(t.todo)
        now == IF t.pc = "call" THEN clock ELSE t.now
    IN  /\ posts' = record_post(posts, offer.product_id, now, offer.price, offer.coupon)
        /\ tasks' = [tasks EXCEPT ![i] = Idle]
        /\ EndAttempt(t.kind, TRUE, [o EXCEPT !.rec = TRUE])

\* faulty variant: send_enabled is not consulted
Deliver_always(enabled) == "send_photo"

\* lines 111-119: what post_offer does once the offer is not a duplicate
Deliver(enabled) == IF enabled THEN "send_photo" ELSE "record"

\* lines 120-127: send_photo came back
AfterPhoto(enabled, ok) ==
    IF ok THEN "record" ELSE IF enabled THEN "send_message" ELSE "record"

\* faulty variants: the fallback's failure is swallowed; its success is not used
AfterText_always(ok) == "record"
AfterText_never(ok) == "return_false"

\* lines 123-129: send_message came back
AfterText(ok) == IF ok THEN "record" ELSE "return_false"

PostOfferCall(i) ==
    /\ tasks[i].pc = "call"
    /\ clock' = clock + 1
    /\ LET offer == Head(tasks[i].todo)
           now == clock
           since == now - Hours(RepostHours)
           o == [Quiet EXCEPT !.op = "post_offer", !.pid = offer.product_id]
       IN  IF posted_within(posts, offer.product_id, since)
           THEN /\ AfterFalse(i, [o EXCEPT !.ret = "false"])
                /\ posts' = posts
           ELSE IF Deliver(send_enabled) = "send_photo"
           THEN /\ tasks' = [tasks EXCEPT ![i] = [@ EXCEPT !.pc = "photo", !.now = now]]
                /\ out' = [o EXCEPT !.who = tasks[i].kind, !.link = TRUE, !.photo = TRUE]
                /\ UNCHANGED <<posts, consecutive_failures, state, streak>>
           ELSE AfterTrue(i, [o EXCEPT !.ret = "true", !.link = TRUE])
    /\ UNCHANGED <<ranking, planned, jobs, start_pending, next_cron, send_enabled, runs>>

\* Telegram cannot deliver a photo that has no URL
PhotoResults(offer) == IF offer.image_url = "" THEN {FALSE} ELSE BOOLEAN

\* await send_photo returns or raises
PhotoDone(i) ==
    /\ ~Running
    /\ tasks[i].pc = "photo"
    /\ LET offer == Head(tasks[i].todo)
           o == [Quiet EXCEPT !.op = "photo_done", !.pid = offer.product_id]
       IN  \E ok \in PhotoResults(offer) :
           LET then == AfterPhoto(send_enabled, ok)
               oo == [o EXCEPT !.sent = IF ok THEN "ok" ELSE "failed"]
           IN  IF then = "record"
               THEN AfterTrue(i, [oo EXCEPT !.ret = "true"])
               ELSE /\ tasks' = [tasks EXCEPT ![i] = [@ EXCEPT !.pc = "text"]]
                    /\ out' = [oo EXCEPT !.who = tasks[i].kind, !.text = TRUE]
                    /\ UNCHANGED <<posts, consecutive_failures, state, streak>>
    /\ UNCHANGED <<ranking, planned, clock, jobs, start_pending, next_cron, send_enabled, runs>>

\* await send_message returns or raises
TextDone(i) ==
    /\ ~Running
    /\ tasks[i].pc = "text"
    /\ LET offer == Head(tasks[i].todo)
           o == [Quiet EXCEPT !.op = "text_done", !.pid = offer.product_id]
       IN  \E ok \in BOOLEAN :
           LET then == AfterText(ok)
               oo == [o EXCEPT !.sent = IF ok THEN "ok" ELSE "failed"]
           IN  IF then = "record"
               THEN AfterTrue(i, [oo EXCEPT !.ret = "true"])
               ELSE /\ AfterFalse(i, [oo EXCEPT !.ret = "false"])
                    /\ posts' = posts
    /\ UNCHANGED <<ranking, planned, clock, jobs, start_pending, next_cron, send_enabled, runs>>

----------------------------------------------------------------------------
(* Admin handlers *)

Users == {"admin", "guest"}
admin_ids == {"admin"}

_is_admin(user_id) == user_id \in admin_ids

pause_handler(u) ==
    /\ ~Running
    /\ state' = IF _is_admin(u) THEN set_state(state, "paused", "1") ELSE state
    /\ out' = Quiet
    /\ UNCHANGED <<ranking, planned, clock, posts, consecutive_failures, jobs, start_pending, next_cron,
                   tasks, send_enabled, streak, runs>>

\* faulty variant: the resume also clears the scheduler's count
resume_handler_resetting(u) ==
    /\ ~Running
    /\ state' = IF _is_admin(u) THEN set_state(state, "paused", "0") ELSE state
    /\ consecutive_failures' = IF _is_admin(u) THEN 0 ELSE consecutive_failures
    /\ out' = Quiet
    /\ UNCHANGED <<ranking, planned, clock, posts, jobs, start_pending, next_cron,
                   tasks, send_enabled, streak, runs>>

resume_handler(u) ==
    /\ ~Running
    /\ state' = IF _is_admin(u) THEN set_state(state, "paused", "0") ELSE state
    /\ out' = Quiet
    /\ UNCHANGED <<ranking, planned, clock, posts, consecutive_failures, jobs, start_pending, next_cron,
                   tasks, send_enabled, streak, runs>>

\* "/freq min max": the words after the command; anything else is answered with the usage
\* a word is a decimal number or not: int(word) raises ValueError for the rest
Num(n) == [isnum |-> TRUE, val |-> n]
Word == [isnum |-> FALSE, val |-> 0]

FreqTexts == { <<Num(1), Num(2)>>, <<Num(2), Num(2)>>, <<Num(0), Num(1)>>,
               <<Num(2), Num(1)>>, <<Num(1)>>, <<Word, Num(2)>> }

\* faulty variant: the numbers are stored without the check of line 78
freq_handler_unchecked(u, parts) ==
    /\ ~Running
    /\ state' = IF /\ _is_admin(u)
                   /\ Len(parts) = 2
                   /\ parts[1].isnum /\ parts[2].isnum
                THEN set_state(set_state(state, "min_per_hour", Str(parts[1].val)),
                               "max_per_hour", Str(parts[2].val))
                ELSE state
    /\ out' = Quiet
    /\ UNCHANGED <<ranking, planned, clock, posts, consecutive_failures, jobs, start_pending, next_cron,
                   tasks, send_enabled, streak, runs>>

freq_handler(u, parts) ==
    /\ ~Running
    /\ state' = IF /\ _is_admin(u)
                   /\ Len(parts) = 2
                   /\ parts[1].isnum /\ parts[2].isnum
                   /\ ~(parts[1].val <= 0 \/ parts[2].val < parts[1].val)
                THEN set_state(set_state(state, "min_per_hour", Str(parts[1].val)),
                               "max_per_hour", Str(parts[2].val))
                ELSE state
    /\ out' = Quiet
    /\ UNCHANGED <<ranking, planned, clock, posts, consecutive_failures, jobs, start_pending, next_cron,
                   tasks, send_enabled, streak, runs>>

postnow_handler(u) ==
    /\ ~Running
    /\ IF ~_is_admin(u)
       THEN /\ out' = Quiet
            /\ UNCHANGED <<tasks, runs>>
       ELSE \E offers \in BestBatches :
            IF offers = <<>>
            THEN /\ out' = [Quiet EXCEPT !.op = "postnow", !.who = "postnow", !.fin = "failed"]
                 /\ UNCHANGED <<tasks, runs>>
            ELSE \E i \in TaskIds :
                 /\ FreeSlot(i)
                 /\ runs > 0
                 /\ runs' = runs - 1
                 /\ tasks' = [tasks EXCEPT ![i] =
                                [kind |-> "postnow", pc |-> "call", todo |-> offers, now |-> 0]]
                 /\ out' = [Quiet EXCEPT !.op = "postnow", !.who = "postnow"]
    /\ UNCHANGED <<ranking, planned, clock, posts, state, consecutive_failures, jobs, start_pending,
                   next_cron, send_enabled, streak>>

----------------------------------------------------------------------------
(* Time passes *)

NextSlot(t) == (t \div SlotLen + 1) * SlotLen

Tick(limit) ==
    /\ ~Running
    /\ ~start_pending
    /\ next_cron > clock
    /\ \A j \in jobs : j.at > clock
    /\ NextSlot(clock) <= limit
    /\ \A i \in TaskIds : tasks[i].pc \in {"photo", "text"} =>
           NextSlot(clock) \div SlotLen - tasks[i].now \div SlotLen <= MaxWait
    /\ clock' = NextSlot(clock)
    /\ out' = Quiet
    /\ UNCHANGED <<ranking, planned, posts, state, consecutive_failures, jobs, start_pending, next_cron,
                   tasks, send_enabled, streak, runs>>

----------------------------------------------------------------------------
(* The process is stopped and main() runs again on the same database file *)

\* faulty variant: the pending jobs outlive the process
Restart_keeping_jobs ==
    /\ ~Running
    /\ consecutive_failures' = 0
    /\ jobs' = jobs
    /\ start_pending' = TRUE
    /\ next_cron' = CronAtOrAfter(clock)
    /\ tasks' = [i \in TaskIds |-> Idle]
    /\ send_enabled' = TRUE
    /\ streak' = 0
    /\ planned' = {}
    /\ out' = [Quiet EXCEPT !.op = "restart"]
    /\ UNCHANGED <<ranking, clock, posts, state, runs>>

\* Database, BotCore and PostingScheduler are built anew and start() is called:
\* the tables are kept, the job store and the counter are those of a new process
Restart ==
    /\ ~Running
    /\ consecutive_failures' = 0
    /\ jobs' = {}
    /\ start_pending' = TRUE
    /\ next_cron' = CronAtOrAfter(clock)
    /\ tasks' = [i \in TaskIds |-> Idle]
    /\ send_enabled' = TRUE
    /\ streak' = 0
    /\ planned' = {}
    /\ out' = [Quiet EXCEPT !.op = "restart"]
    /\ UNCHANGED <<ranking, clock, posts, state, runs>>

----------------------------------------------------------------------------

Schedule ==
    \/ PlanAtStart
    \/ PlanAtHour
    \/ \E j \in jobs : _post_one(j)

Pipeline ==
    \/ \E i \in TaskIds : PostOfferCall(i)
    \/ \E i \in TaskIds : PhotoDone(i)
    \/ \E i \in TaskIds : TextDone(i)

\* the publishing pipeline under scheduled and manual attempts
NextPipeline ==
    \/ Schedule
    \/ Pipeline
    \/ \E u \in Users : postnow_handler(u)
    \/ Tick(StartHour * HourTicks + PipelineSlots * SlotLen)

SpecPipeline == InitPipeline /\ [][NextPipeline]_vars

\* the scheduler and its circuit breaker under the admin's pause and resume
NextBreaker ==
    \/ Schedule
    \/ Pipeline
    \/ \E u \in Users : pause_handler(u)
    \/ \E u \in Users : resume_handler(u)
    \/ \E u \in Users : postnow_handler(u)
    \/ Tick(StartHour * HourTicks + BreakerSlots * SlotLen)

SpecBreaker == InitBreaker /\ [][NextBreaker]_vars

\* the scheduler and its breaker across restarts of the process; only the breaker pauses
NextRestart ==
    \/ Schedule
    \/ Pipeline
    \/ \E u \in Users : resume_handler(u)
    \/ Restart
    \/ Tick(StartHour * HourTicks + RestartSlots * SlotLen)

SpecRestart == InitBreaker /\ [][NextRestart]_vars

\* the end of the run SpecAdmin explores: AdminSlots slots after the start
AdminLimit ==
    (IF HourOf(clock) < 12 THEN (2 * 24 + WindowStart - 1) * HourTicks
                           ELSE (2 * 24 + WindowEnd - 1) * HourTicks)
    + SlotLen + AdminSlots * SlotLen

\* planning at the edges of the window under the admin's /pausar, /retomar and /freq
NextAdmin ==
    \/ Schedule
    \/ Pipeline
    \/ \E u \in Users : pause_handler(u)
    \/ \E u \in Users : resume_handler(u)
    \/ \E u \in Users : \E parts \in FreqTexts : freq_handler(u, parts)
    \/ Tick(AdminLimit)

SpecAdmin == InitAdmin /\ [][NextAdmin]_vars

\* best_scored(limit) on its own: the batch that fetch_top_offers(limit * 3) returned
RankInputs ==
    { r \in [fetched : UNION { [1..n -> RankPool] : n \in 1..MaxRank }, limit : 1..MaxLimit,
             done : {FALSE}, offers : {<<>>}] : Len(r.fetched) <= 3 * r.limit }

InitRanker ==
    /\ clock = StartHour * HourTicks
    /\ Started
    /\ ranking \in RankInputs
    /\ posts = {}
    /\ send_enabled = TRUE
    /\ runs = 0

Rank ==
    /\ ~ranking.done
    /\ ranking' = [ranking EXCEPT !.done = TRUE,
                                  !.offers = best_scored(ranking.fetched, ranking.limit)]
    /\ UNCHANGED <<planned, clock, posts, state, consecutive_failures, jobs, start_pending,
                   next_cron, tasks, send_enabled, streak, runs, out>>

NextRanker == Rank

SpecRanker == InitRanker /\ [][NextRanker]_vars

\* the ledger on its own: record_post and posted_within called with any arguments
LedgerPids == {"p1", "p2"}
LedgerTimes == { StartHour * HourTicks - k * Hours(24) : k \in 0..(MaxTimes - 1) }
LedgerRows == { [price |-> 50, coupon |-> ""], [price |-> 100, coupon |-> "R$20 OFF"] }

\* Database.__init__ on a new file: the schema is created, the tables are empty
InitLedger ==
    /\ clock = StartHour * HourTicks
    /\ Started
    /\ ranking = NoRanking
    /\ posts = {}
    /\ send_enabled = TRUE
    /\ runs = 0

RecordPost(product_id, posted_at, row) ==
    /\ posts' = record_post(posts, product_id, posted_at, row.price, row.coupon)
    /\ out' = [Quiet EXCEPT !.op = "record_post", !.pid = product_id, !.rec = TRUE,
                            !.rows = Cardinality(posts)]
    /\ UNCHANGED <<ranking, planned, clock, state, consecutive_failures, jobs, start_pending,
                   next_cron, tasks, send_enabled, streak, runs>>

PostedWithin(product_id, since) ==
    /\ out' = [Quiet EXCEPT !.op = "posted_within", !.pid = product_id,
                            !.ret = IF posted_within(posts, product_id, since)
                                    THEN "true" ELSE "false",
                            !.rows = Cardinality(posts)]
    /\ UNCHANGED <<ranking, planned, clock, posts, state, consecutive_failures, jobs, start_pending,
                   next_cron, tasks, send_enabled, streak, runs>>

\* a reader of the ledger: the newest rows, as status_handler lists them
GetRecentPosts(limit) ==
    /\ \E rows \in get_recent_posts(posts, limit) :
          out' = [Quiet EXCEPT !.op = "get_recent_posts",
                               !.pid = IF rows = <<>> THEN NONE ELSE rows[1][1],
                               !.rows = Len(rows)]
    /\ UNCHANGED <<ranking, planned, clock, posts, state, consecutive_failures, jobs,
                   start_pending, next_cron, tasks, send_enabled, streak, runs>>

NextLedger ==
    \/ \E product_id \in LedgerPids : \E posted_at \in LedgerTimes : \E row \in LedgerRows :
          RecordPost(product_id, posted_at, row)
    \/ \E product_id \in LedgerPids : \E since \in LedgerTimes :
          PostedWithin(product_id, since)
    \/ \E limit \in 0..MaxRecent : GetRecentPosts(limit)

SpecLedger == InitLedger /\ [][NextLedger]_vars

----------------------------------------------------------------------------
(* Properties of the publishing pipeline, checked under SpecPipeline *)

\* the offer the synchronous part of a loop is about to hand to post_offer
Calling(i) == tasks[i].pc = "call"
Callee(i) == Head(tasks[i].todo)

\* the ages, in ticks, of the ledger's records of a product at time t
Ages(pid, t) == { t - FromIso(r.posted_at) : r \in { x \in posts : x.product_id = pid } }

\* C1: the ledger never holds two records of one product whose posted_at values
\* are less than 48 hours apart, whatever the interleaving of scheduled attempts
\* and /postnow requests, overlapping calls for the same offer included.
C1_NoRepostWithin48h ==
    \A r1 \in posts : \A r2 \in posts :
        (r1.product_id = r2.product_id /\ r1.posted_at # r2.posted_at)
            => (FromIso(r1.posted_at) - FromIso(r2.posted_at) >= Hours(48)
                \/ FromIso(r2.posted_at) - FromIso(r1.posted_at) >= Hours(48))

\* C2: a post_offer call for a product the ledger records at or after now - 48h
\* returns false without generating a link, without send_photo or send_message,
\* and leaves the ledger as it was.
C2_DuplicateHasNoEffect ==
    [][ \A i \in TaskIds :
          (Calling(i) /\ \E a \in Ages(Callee(i).product_id, clock) : a <= Hours(48))
          => /\ out'.op = "post_offer" /\ out'.pid = Callee(i).product_id
             /\ out'.ret = "false"
             /\ ~out'.link /\ ~out'.photo /\ ~out'.text /\ ~out'.rec
             /\ posts' = posts ]_vars

\* C2, its case: a call 47 hours after the product was posted has returned false
C2_Witness ==
    /\ out.op = "post_offer" /\ out.ret = "false"
    /\ Hours(47) \in Ages(out.pid, clock - 1)

\* C3: a post_offer call made strictly later than 48h after the product's most
\* recent record is not suppressed; when its delivery succeeds it returns true
\* and appends a new record, stamped with the time of the call; and
\* posted_within is true iff some record of the product has posted_at >= cutoff.
C3_EligibleAfter48h ==
    /\ [][ \A i \in TaskIds :
             (/\ Calling(i)
              /\ Ages(Callee(i).product_id, clock) # {}
              /\ \A a \in Ages(Callee(i).product_id, clock) : a > Hours(48))
             => /\ out'.op = "post_offer" /\ out'.ret # "false" /\ out'.link
                /\ (out'.photo \/ out'.ret = "true") ]_vars
    /\ [][ (out'.ret = "true")
             => \E i \in TaskIds :
                  /\ tasks[i].kind # "idle" /\ tasks'[i].kind = "idle"
                  /\ out'.pid = Callee(i).product_id
                  /\ LET called == IF Calling(i) THEN clock ELSE tasks[i].now
                         r == [product_id |-> Callee(i).product_id, posted_at |-> Iso(called),
                               price |-> Callee(i).price, coupon |-> Callee(i).coupon]
                     IN  r \notin posts /\ posts' = posts \cup {r} ]_vars
    /\ [](\A pid \in {o.product_id : o \in OfferPool} :
            \A d \in 0..3 : \A cutoff \in {clock - Hours(48) - d, clock - Hours(48) + d} :
                posted_within(posts, pid, cutoff)
                    <=> \E a \in Ages(pid, cutoff) : a <= 0)

\* C3, its case: a call 49 hours after the earlier post has gone through
C3_Witness ==
    /\ out.ret = "true"
    /\ \E r \in posts : r.product_id = out.pid /\ Hours(49) \in Ages(out.pid, FromIso(r.posted_at))

\* C4: with delivery enabled, when the photo and then the text delivery fail,
\* post_offer returns false and the ledger is unchanged.
C4_BothFailNoWrite ==
    [][ (out'.op = "text_done" /\ out'.sent = "failed")
          => out'.ret = "false" /\ ~out'.rec /\ posts' = posts ]_vars

\* C4, its case: the text fallback of an offer has failed
C4_Witness ==
    send_enabled /\ out.op = "text_done" /\ out.sent = "failed" /\ out.ret = "false"

\* C5: a post_offer call that returns true has made exactly one ledger write,
\* which adds exactly one record, and a call that returns false has made none;
\* so it is when the photo fails and the text fallback succeeds.
C5_OneWritePerSuccess ==
    [][ /\ (out'.ret = "true"
              => out'.rec /\ posts \subseteq posts'
                 /\ Cardinality(posts') = Cardinality(posts) + 1)
        /\ (out'.ret = "false" => ~out'.rec /\ posts' = posts)
        /\ (out'.op = "text_done" /\ out'.sent = "ok" => out'.ret = "true") ]_vars

\* C5, its case: the text fallback has succeeded after the photo failed
C5_Witness ==
    out.op = "text_done" /\ out.sent = "ok" /\ out.ret = "true" /\ out.rec

\* C6: in dry-run mode a post_offer call for an offer not posted within 48h calls
\* neither send_photo nor send_message, records the post with the time of the
\* call and the offer's price and coupon, and returns true.
C6_DryRunRecords ==
    [][ \A i \in TaskIds :
          (/\ ~send_enabled
           /\ Calling(i)
           /\ \A a \in Ages(Callee(i).product_id, clock) : a > Hours(48))
          => /\ ~out'.photo /\ ~out'.text
             /\ out'.ret = "true"
             /\ posts' = posts \cup
                  { [product_id |-> Callee(i).product_id, posted_at |-> Iso(clock),
                     price |-> Callee(i).price, coupon |-> Callee(i).coupon] } ]_vars

\* C6, its case: a dry run has recorded an offer
C6_Witness ==
    ~send_enabled /\ out.op = "post_offer" /\ out.ret = "true" /\ out.rec

\* C7: post_offer calls send_photo only for an offer whose image_url is not empty.
C7_PhotoOnlyWithImage ==
    out.photo => \A o \in OfferPool : o.product_id = out.pid => o.image_url # ""

\* C14: a scheduled attempt holds its ranked batch in rank order, hands post_offer
\* the first offer left, drops that offer when the call returns false and goes on
\* to the next, and ends at the first call that returns true: that step records
\* that one offer and nothing after it is called, delivered or recorded.
C14_OnePostPerAttempt ==
    [][ \A i \in TaskIds :
          /\ (tasks[i].kind = "idle" /\ tasks'[i].kind = "sched")
                => /\ tasks'[i].todo # <<>> /\ tasks'[i].pc = "call"
                   /\ \A a \in 1..Len(tasks'[i].todo) : \A b \in a..Len(tasks'[i].todo) :
                         _score(tasks'[i].todo[a]) >= _score(tasks'[i].todo[b])
          /\ (tasks[i].kind = "sched" /\ tasks'[i] # tasks[i])
                => /\ out'.pid = Callee(i).product_id
                   /\ out'.ret = NONE
                         => tasks'[i].kind = "sched" /\ tasks'[i].todo = tasks[i].todo
                            /\ tasks'[i].pc \in {"photo", "text"} /\ posts' = posts
                   /\ out'.ret = "false"
                         => /\ posts' = posts
                            /\ IF Len(tasks[i].todo) > 1
                               THEN /\ tasks'[i].kind = "sched" /\ tasks'[i].pc = "call"
                                    /\ tasks'[i].todo = Tail(tasks[i].todo)
                                    /\ out'.fin = NONE
                               ELSE /\ tasks'[i].kind = "idle"
                                    /\ out'.who = "sched" /\ out'.fin = "failed"
                   /\ out'.ret = "true"
                         => /\ tasks'[i].kind = "idle"
                            /\ out'.who = "sched" /\ out'.fin = "posted"
                            /\ \A r \in posts' \ posts : r.product_id = Callee(i).product_id
                            /\ Cardinality(posts' \ posts) <= 1 ]_vars

\* C14, its case: the first offer of a scheduled attempt has returned false and the
\* attempt is about to call post_offer on the second
C14_Witness ==
    /\ out.who = "sched" /\ out.op = "post_offer" /\ out.ret = "false" /\ out.pid = "p1"
    /\ \E i \in TaskIds : /\ tasks[i].kind = "sched" /\ tasks[i].pc = "call"
                          /\ Head(tasks[i].todo).product_id = "p2"

\* the lowercased "title category" strings of the offers, written out
LoweredNames ==
    [ p1 |-> <<"r", "t", "x", " ", "4", "0", "6", "0", " ", "p", "l", "a", "c", "a", " ", "d", "e", " ", "v", "í", "d", "e", "o", " ", "p", "l", "a", "c", "a", "s", " ", "d", "e", " ", "v", "i", "d", "e", "o">>,
      p2 |-> <<"f", "u", "n", "k", "o", " ", "p", "o", "p", " ", "c", "o", "l", "e", "c", "i", "o", "n", "á", "v", "e", "l", " ", "f", "u", "n", "k", "o">>,
      p3 |-> <<"c", "a", "m", "i", "s", "e", "t", "a", " ", "u", "n", "i", "s", "s", "e", "x", " ", "r", "o", "u", "p", "a", "s">> ]

\* the keyword occurs in the name as a substring
Occurs(keyword, name) ==
    \E p \in 1..Len(name) :
        p + Len(keyword) - 1 <= Len(name) /\ SubSeq(name, p, p + Len(keyword) - 1) = keyword

\* the filter on the offers of the model: it accepts an offer iff a keyword of the
\* allow-list occurs in the lowercased "title category"; "RTX 4060 Placa de Vídeo" in
\* "placas de video" passes, "Camiseta Unissex" in "roupas" does not, and a keyword
\* inside a longer word ("funkos") counts
FilterByKeyword ==
    /\ \A o \in OfferPool :
          _passes_category(o)
              <=> \E keyword \in ACCEPTED_CATEGORIES : Occurs(keyword, LoweredNames[o.product_id])
    /\ _passes_category(Offer1)
    /\ ~_passes_category(Offer3)
    /\ _passes_category([Offer3 EXCEPT !.title = <<"F", "u", "n", "k", "o", "s">>])

\* C19: an offer passes the category filter iff its lowercased "title category"
\* contains a keyword of the allow-list, and no offer the filter rejects is ever in
\* the batch a scheduled attempt hands to post_offer.
C19_CategoryFilter ==
    /\ FilterByKeyword
    /\ \A i \in TaskIds :
          tasks[i].kind = "sched"
              => \A k \in 1..Len(tasks[i].todo) : tasks[i].todo[k].product_id # "p3"
    /\ out.who = "sched" => out.pid # "p3"

\* C19, its case: a scheduled attempt whose batch held nothing but rejected offers
\* has ended without a call of post_offer
C19_Witness ==
    /\ out.op = "post_one" /\ out.who = "sched" /\ out.fin = "failed"
    /\ out.pid = NONE

----------------------------------------------------------------------------
(* Properties of the circuit breaker, checked under SpecBreaker *)

Paused == state["paused"] = "1"

\* a scheduled attempt has just ended without a post / with one
AttemptFailed(o) == o.who = "sched" /\ o.fin = "failed"
AttemptPosted(o) == o.who = "sched" /\ o.fin = "posted"

\* C8: of a run of scheduled attempts that each end without a post, begun at a
\* count of 0, the 5th sets paused to "1" and calls notify_admins; the first four
\* leave paused alone and notify nobody.
C8_TripsAtFifthFailure ==
    [][ AttemptFailed(out')
          => /\ streak' = streak + 1
             /\ (streak' >= 5 => state'["paused"] = "1" /\ out'.notify)
             /\ (streak' < 5 => state' = state /\ ~out'.notify) ]_vars

\* C8, its case: the 5th failure in a row has paused the bot
C8_Witness ==
    AttemptFailed(out) /\ streak = 5 /\ out.prev = 4 /\ Paused /\ out.notify

\* C9: a scheduled attempt that posts sets the failure counter to 0, so the
\* counter is always the number of attempts without a post since the last one
\* with a post, and the breaker acts only on a fresh run of at least 5.
C9_SuccessResetsCounter ==
    /\ [][ AttemptPosted(out')
             => consecutive_failures' = 0 /\ state' = state /\ ~out'.notify ]_vars
    /\ [](consecutive_failures = streak)
    /\ [](out.notify => streak >= 5)

\* C9, its case: an attempt has posted after earlier attempts had failed
C9_Witness ==
    AttemptPosted(out) /\ out.prev > 0 /\ consecutive_failures = 0

\* C10: once paused is "1" it stays "1" until the admin's resume writes "0": no
\* planning tick and no attempt writes it back; and the attempt that trips the
\* breaker leaves the counter at its count, it does not reset it.
C10_PausedUntilResume ==
    /\ [][ (Paused /\ ~Paused')
             => /\ resume_handler("admin")
                /\ state'["paused"] = "0" ]_vars
    /\ [][ out'.notify
             => /\ Paused'
                /\ consecutive_failures' = consecutive_failures + 1
                /\ consecutive_failures' >= 5 ]_vars

\* C10, its case: the breaker has paused the bot and a later attempt found it paused
C10_Witness ==
    Paused /\ consecutive_failures >= 5 /\ out.who = "sched" /\ out.fin = "noop"

\* C12: a scheduled attempt that fires while paused is "1" does nothing: no fetch,
\* no loop and so no delivery call, no record, the failure counter and the state
\* as they were; and the admin's pause is in the state table as soon as the
\* handler has run, so every attempt that fires after it finds it.
C12_PausedAttemptIsNoop ==
    /\ [][ (state["paused"] = "1" /\ \E j \in jobs : j \notin jobs')
             => /\ out'.fin = "noop"
                /\ runs' = runs
                /\ tasks' = tasks
                /\ ~out'.link /\ ~out'.photo /\ ~out'.text /\ ~out'.rec
                /\ posts' = posts
                /\ consecutive_failures' = consecutive_failures
                /\ state' = state ]_vars
    /\ [][ pause_handler("admin") => state'["paused"] = "1" ]_vars

\* C12, its case: an attempt has fired under the admin's pause, the breaker not tripped
C12_Witness ==
    /\ out.who = "sched" /\ out.fin = "noop"
    /\ state["paused"] = "1"
    /\ consecutive_failures < 5

C16_StateOnlyByBreaker ==
    /\ [][ state' # state
             => \/ pause_handler("admin")
                \/ resume_handler("admin")
                \/ /\ AttemptFailed(out')
                   /\ consecutive_failures' >= 5
                   /\ state' = [state EXCEPT !["paused"] = "1"] ]_vars
    /\ [][ (AttemptFailed(out') /\ consecutive_failures' < 5) => state' = state ]_vars
    /\ [][ (start_pending' # start_pending \/ next_cron' # next_cron) => state' = state ]_vars

\* C16, its case: after the admin's resume an attempt without a post has left the
\* counter below 5 and the state as the admin wrote it
C16_Witness ==
    /\ AttemptFailed(out)
    /\ consecutive_failures \in 1..4
    /\ state = [paused |-> "0", min_per_hour |-> NONE, max_per_hour |-> NONE]

----------------------------------------------------------------------------
(* Properties of planning and of the admin's settings, checked under SpecAdmin *)

\* a planning tick: the job added by start() runs, or the cron job fires
PlanningTick == (start_pending /\ ~start_pending') \/ next_cron' # next_cron

\* the attempts a step schedules
Scheduled == jobs' \ jobs

StoredMin == IF state["min_per_hour"] = NONE THEN 20 ELSE ParseInt(state["min_per_hour"])
StoredMax == IF state["max_per_hour"] = NONE THEN 25 ELSE ParseInt(state["max_per_hour"])
BoundsFit == StoredMin <= StoredMax /\ StoredMax <= HourLen

\* a planning tick that passes both gates
Plans ==
    /\ PlanningTick
    /\ state["paused"] # "1"
    /\ (clock \div HourTicks) % 24 \in 8..21

HourStart == (clock \div HourTicks) * HourTicks

\* the attempts scheduled lie in the current hour, on distinct offsets, not before now
OffsetsInHour ==
    /\ \A j \in Scheduled :
          /\ HourStart <= j.at /\ j.at < HourStart + HourTicks
          /\ (j.at - HourStart) % SlotLen = 0
          /\ clock <= j.at
    /\ \A j \in Scheduled : \A k \in Scheduled : j # k => j.at # k.at

\* C13, as stated: for bounds (min, max) that fit in the hour, every planning tick
\* schedules between min and max attempts, on distinct offsets of the current
\* hour that are not before now.
C13_CountWithinBounds ==
    [][ (Plans /\ BoundsFit)
          => /\ StoredMin <= Cardinality(Scheduled)
             /\ Cardinality(Scheduled) <= StoredMax
             /\ OffsetsInHour ]_vars

\* C13, amended: every planning tick schedules at most max attempts, on distinct
\* offsets of the current hour that are not before now; it schedules at least
\* min of them when it plans at the very start of the hour and the bounds fit
\* in the hour.  Planned inside the hour, the drawn offsets that are already past
\* are dropped and the attempts may be fewer than min, none included.
C13_PlannedWithinHour ==
    [][ Plans
          => /\ OffsetsInHour
             /\ Cardinality(Scheduled) <= (IF StoredMax < StoredMin THEN StoredMin ELSE StoredMax)
             /\ Cardinality(Scheduled) <= HourLen
             /\ (clock = HourStart /\ BoundsFit) => StoredMin <= Cardinality(Scheduled) ]_vars

\* C13, its case: started at 21:30 with the bounds 1 and 2, the planning tick drew
\* an offset that was past and scheduled no attempt
C13_Witness ==
    /\ (clock \div HourTicks) % 24 = 21 /\ clock % HourTicks = SlotLen
    /\ ~start_pending
    /\ state = [paused |-> NONE, min_per_hour |-> "1", max_per_hour |-> "2"]
    /\ jobs = {}
    /\ consecutive_failures = 0 /\ runs = AdminRuns
    /\ \A i \in TaskIds : tasks[i].kind = "idle"

\* C17: /freq min max by an admin with two numbers, min > 0 and max >= min, stores
\* both numbers; any other request (not an admin, a word missing, not a number,
\* min <= 0, max < min) leaves the state table as it was; so the stored bounds are
\* absent together or are two positive numbers with min_per_hour <= max_per_hour.
C17_FreqValidated ==
    /\ [][ \A u \in Users : \A parts \in FreqTexts :
             freq_handler(u, parts)
                => IF /\ u = "admin"
                      /\ Len(parts) = 2
                      /\ \A k \in 1..Len(parts) : parts[k].isnum
                      /\ parts[1].val > 0
                      /\ parts[2].val >= parts[1].val
                   THEN state' = [state EXCEPT !["min_per_hour"] = ToString(parts[1].val),
                                               !["max_per_hour"] = ToString(parts[2].val)]
                   ELSE state' = state ]_vars
    /\ []( IF state["min_per_hour"] = NONE \/ state["max_per_hour"] = NONE
           THEN state["min_per_hour"] = NONE /\ state["max_per_hour"] = NONE
           ELSE \E mn \in 1..MaxInt : \E mx \in mn..MaxInt :
                  state["min_per_hour"] = ToString(mn) /\ state["max_per_hour"] = ToString(mx) )

\* C17, its case: a valid request with min = max has stored the bounds 2..2
C17_Witness ==
    state["min_per_hour"] = "2" /\ state["max_per_hour"] = "2"

----------------------------------------------------------------------------
(* Properties of the ranker, checked under SpecRanker *)

\* the scores the formula 2*discount_pct + (20 if coupon) + (10 if free_shipping)
\* + min(sales_count/50, 20) + rating gives the offers of RankPool, worked by hand
ClaimedScore ==
    [ r1 |-> 62,        \* 2*14 + 0 + 10 + min(5000/50, 20) + 4.0
      r2 |-> 40,        \* 2*8 + 20 + 0 + min(0/50, 20) + 4.0
      r3 |-> 40,        \* 2*13 + 0 + 10 + min(0/50, 20) + 4.0
      r4 |-> 15 ]       \* 2*5 + 0 + 0 + min(50/50, 20) + 4.0

\* C18: best_scored returns the first `limit` offers of the batch without the
\* offers the category filter rejects, in descending order of score, offers of
\* equal score in the order of the batch; the score is the claimed formula.
C18_RankerOrdersByScore ==
    /\ \A o \in RankPool \ {Offer3} : _score(o) = 50 * ClaimedScore[o.product_id]
    /\ ranking.done =>
          LET f == ranking.fetched
              kept == { i \in 1..Len(f) : f[i].product_id # "p3" }
              n == Cardinality(kept)
              m == IF ranking.limit < n THEN ranking.limit ELSE n
          IN  \E idx \in [1..n -> kept] :
                /\ \A a \in 1..n : \A b \in (a + 1)..n :
                      \/ ClaimedScore[f[idx[a]].product_id] > ClaimedScore[f[idx[b]].product_id]
                      \/ /\ ClaimedScore[f[idx[a]].product_id] = ClaimedScore[f[idx[b]].product_id]
                         /\ idx[a] < idx[b]
                /\ ranking.offers = [k \in 1..m |-> f[idx[k]]]

\* C18, its case: a batch with the scores 40, 15 and 62 and limit 2 has given the
\* offers of score 62 and 40, in that order
C18_Witness ==
    /\ ranking.done
    /\ ranking.fetched = <<Rank40a, Rank15, Rank62>> /\ ranking.limit = 2
    /\ ranking.offers = <<Rank62, Rank40a>>

----------------------------------------------------------------------------
(* Properties of the ledger, checked under SpecLedger *)

\* C20: record_post adds the row (product_id, posted_at, price, coupon) when the
\* ledger has no row of that (product_id, posted_at) and otherwise leaves the ledger
\* as it is, so a second call with the same pair changes nothing; no ledger
\* operation removes or alters a row, and the pair stays a key.
C20_RecordPostIdempotent ==
    /\ [][ \A product_id \in LedgerPids : \A posted_at \in LedgerTimes : \A row \in LedgerRows :
             RecordPost(product_id, posted_at, row)
                => IF \E r \in posts : /\ r.product_id = product_id
                                       /\ FromIso(r.posted_at) = posted_at
                   THEN posts' = posts
                   ELSE posts' = posts \cup
                          { [product_id |-> product_id, posted_at |-> Iso(posted_at),
                             price |-> row.price,
                             coupon |-> IF row.coupon = "" THEN NONE ELSE row.coupon] } ]_vars
    /\ [][ posts \subseteq posts' ]_vars
    /\ [][ out'.op = "posted_within" => posts' = posts ]_vars
    /\ [](\A r1 \in posts : \A r2 \in posts :
            (r1.product_id = r2.product_id /\ r1.posted_at = r2.posted_at) => r1 = r2)

\* C20, its case: record_post was called with a pair the ledger already held, and
\* the ledger has as many rows as before the call
C20_Witness ==
    /\ out.op = "record_post" /\ out.pid = "p1"
    /\ out.rows = Cardinality(posts)
    /\ posts # {}

----------------------------------------------------------------------------
(* Properties of SpecPipeline: what the ledger reports after a post *)

\* the offer of the pool with this product_id
Posted(pid) == CHOOSE o \in OfferPool : o.product_id = pid

\* the rows are in descending order of posted_at
NewestFirst(rows) ==
    \A i \in 1..Len(rows) : \A j \in i..Len(rows) :
        FromIso(rows[i][2]) >= FromIso(rows[j][2])

\* get_recent_posts(limit) returns at most limit rows of the ledger, newest first
RecentIsBounded ==
    \A limit \in 0..MaxRecent : \A rows \in get_recent_posts(posts, limit) :
        /\ Len(rows) <= limit
        /\ NewestFirst(rows)
        /\ \A i \in 1..Len(rows) :
              \E r \in posts : rows[i] = <<r.product_id, r.posted_at, r.price>>

\* C21: right after a call of post_offer returns True, get_recent_posts(1) is the
\* one row of that offer (its product_id and its price), whatever the ledger held
\* and whatever other call completed in the meantime; and get_recent_posts(limit)
\* is always at most limit rows, newest first by posted_at.
C21_RecentReportsPost ==
    /\ [](RecentIsBounded)
    /\ [][ out'.ret = "true" =>
              \A rows \in get_recent_posts(posts', 1) :
                  /\ Len(rows) = 1
                  /\ rows[1][1] = out'.pid
                  /\ rows[1][3] = Posted(out'.pid).price ]_vars

----------------------------------------------------------------------------
(* Properties of SpecRestart *)

AllIdle == \A i \in TaskIds : tasks[i] = Idle

\* C22: a restart keeps the state table (paused flag, rate bounds) and the ledger,
\* drops every pending attempt, so that each attempt pending later was planned by
\* the new process, and plans once, at once, for the rest of the current hour;
\* from a restart under paused = "1" no attempt is planned or run and nothing is
\* recorded until paused is set to "0".
C22_RestartSemantics ==
    /\ [][ out'.op = "restart"
              => /\ state' = state
                 /\ posts' = posts
                 /\ jobs' = {}
                 /\ \A i \in TaskIds : tasks'[i] = Idle
                 /\ start_pending'
                 /\ clock' = clock ]_vars
    /\ [](\A j \in jobs : [hour |-> j.at \div HourTicks, by |-> j.by] \in planned)
    /\ [][ start_pending => clock' \div HourTicks = clock \div HourTicks ]_vars
    /\ [][ (start_pending /\ ~start_pending')
              => /\ OffsetsInHour
                 /\ \A j \in Scheduled : j.by = "start"
                 /\ (~Paused /\ _in_window(clock)) =>
                        [hour |-> clock \div HourTicks, by |-> "start"] \in planned' ]_vars
    /\ [][ (~start_pending /\ start_pending') => out'.op = "restart" ]_vars
    /\ [][ (Paused /\ jobs = {} /\ AllIdle /\ state'["paused"] # "0")
              => /\ state'["paused"] = "1"
                 /\ jobs' = {}
                 /\ \A i \in TaskIds : tasks'[i] = Idle
                 /\ posts' = posts
                 /\ planned' \subseteq planned
                 /\ out'.who # "sched" ]_vars

\* paused by the breaker, restarted, and in the new process both the immediate
\* planning tick and the cron tick of an hour inside the window planned nothing
C22_Witness ==
    /\ Paused
    /\ ~start_pending
    /\ planned = {}
    /\ jobs = {}
    /\ consecutive_failures = 0
    /\ _in_window(clock)
    /\ clock % HourTicks = 0
    /\ next_cron > clock

----------------------------------------------------------------------------
(* Properties of SpecBreaker: the breaker after a resume, and the manual publish *)

\* C23: the count of consecutive failures changes only at the end of a scheduled
\* attempt: the auto-pause leaves it at 5 or more and the resume leaves it alone.
\* So while no scheduled attempt has posted since the auto-pause the count stays
\* >= 5, and after the resume the first scheduled attempt that ends without a
\* post sets paused to "1" again and notifies the operators again.
C23_RetripsAfterResume ==
    /\ [][ consecutive_failures' # consecutive_failures
              => out'.who = "sched" /\ out'.fin \in {"failed", "posted"} ]_vars
    /\ [][ (AttemptFailed(out') /\ out'.notify) => consecutive_failures' >= 5 ]_vars
    /\ [][ (Paused /\ state'["paused"] = "0")
              => consecutive_failures' = consecutive_failures ]_vars
    /\ [](streak >= 5 => consecutive_failures >= 5)
    /\ [][ (AttemptFailed(out') /\ streak >= 5)
              => /\ consecutive_failures' = consecutive_failures + 1
                 /\ state'["paused"] = "1"
                 /\ out'.notify ]_vars

\* after five failures, the auto-pause and a resume, a scheduled attempt started
\* unpaused has just ended without a post: paused is "1" again, operators notified
C23_Witness ==
    /\ AttemptFailed(out)
    /\ out.prev >= 5
    /\ out.notify
    /\ Paused
    /\ consecutive_failures >= 6

\* C24: /postnow does not consult the breaker and does not feed it. Sent by an
\* admin while paused is "1" it still starts the loop of post_offer over the batch
\* best_scored returned (or answers at once when the batch is empty); every step
\* of a manual publish leaves the paused flag and the count of consecutive
\* failures as they were, whether it ends with a post or without; and it records
\* at most one offer, ending at the first call that returns True.
C24_PostNowIndependent ==
    /\ [][ (Paused /\ out'.op = "postnow" /\ out'.who = "postnow")
              => \/ out'.fin = "failed"
                 \/ \E i \in TaskIds : /\ tasks[i] = Idle
                                        /\ tasks'[i].kind = "postnow"
                                        /\ tasks'[i].pc = "call"
                                        /\ tasks'[i].todo \in BestBatches \ { <<>> } ]_vars
    /\ [][ (\E i \in TaskIds : tasks[i].kind = "postnow" /\ Calling(i))
              => out'.op = "post_offer" /\ out'.who = "postnow" ]_vars
    /\ [][ out'.who = "postnow"
              => /\ state' = state
                 /\ consecutive_failures' = consecutive_failures
                 /\ ~out'.notify
                 /\ Cardinality(posts') <= Cardinality(posts) + 1
                 /\ (posts' # posts => out'.ret = "true")
                 /\ (out'.ret = "true" =>
                        /\ out'.fin = "posted"
                        /\ \A i \in TaskIds : tasks'[i] # tasks[i] => tasks'[i] = Idle) ]_vars

\* a manual publish has just posted and recorded an offer while the breaker holds
\* the bot paused after five failures; paused and the count are as they were
C24_Witness ==
    /\ Paused
    /\ consecutive_failures >= 5
    /\ out.who = "postnow"
    /\ out.fin = "posted"
    /\ out.rec

----------------------------------------------------------------------------
(* Properties of SpecBreaker: one plan per clock hour *)

\* no clock hour was planned twice by this process
PlannedOnce == \A p \in planned : \A q \in planned : p.hour = q.hour => p = q

\* the attempts a step schedules lie in the clock hour of the step, inside the window
InPlannedHour ==
    \A j \in Scheduled : /\ j.at \div HourTicks = clock \div HourTicks
                          /\ _in_window(j.at)

\* after a planning tick the attempts pending for the current clock hour are no
\* more than the max_per_hour the tick read
WithinMaxRead ==
    PlanningTick =>
        Cardinality({ j \in jobs' : j.at \div HourTicks = clock \div HourTicks })
            <= _get_hourly_bounds[2]

\* C25: within one process lifetime no clock hour is planned twice; every attempt
\* is scheduled in the clock hour of the planning tick that creates it, inside
\* [08:00, 22:00); and the attempts of a clock hour are no more than the
\* max_per_hour read when that hour was planned.
C25_OnePlanPerHour ==
    /\ [](PlannedOnce)
    /\ [][InPlannedHour]_vars
    /\ [][WithinMaxRead]_vars

====
